---- MODULE Spec2Model ----
(***************************************************************************)
(* Degen Index demo (src/ingest_demo.py): the mock comment classifier      *)
(* mock_classify_comment, and main, which fetches the top-level comments   *)
(* of one thread, classifies them in order and prints a summary.           *)
(*                                                                         *)
(* A text is a sequence of one-character strings, so that upper(), lower() *)
(* and the substring test `in` are computed character by character.        *)
(***************************************************************************)
EXTENDS Integers, Sequences, FiniteSets, TLC

VARIABLES
    pc,               \* position of main: "start", "ingest", "slice", "classify", "done";
                      \* "call"/"returned" for a direct classifier call, "batch" for a direct summary
    client_id,        \* os.getenv("REDDIT_CLIENT_ID"): "None" (unset), "" or a value
    client_secret,    \* os.getenv("REDDIT_CLIENT_SECRET")
    limit,            \* args.limit
    fetch,            \* outcome of the submission fetch: "pending", "ok", "not_found", "network_error"
    thread,           \* bodies of the top-level comments of the fetched submission
    comments,         \* list(submission.comments)[:args.limit]
    classifications,  \* the list main appends to
    summary,          \* what the SUMMARY block computed, NoSummary before
    result,           \* how main ended: "running", "return 0", "return 1", "ZeroDivisionError"
    i,                \* 1-based position of the classification loop in comments
    body,             \* argument of one direct call of mock_classify_comment
    record            \* what that call returned, NoRecord before

vars == <<pc, client_id, client_secret, limit, fetch, thread, comments,
          classifications, summary, result, i, body, record>>

-----------------------------------------------------------------------------
(* Bounds of the model *)

MaxWords == 2      \* a directly classified body is at most this many words of Words
MaxComments == 2   \* top-level comments of a thread
MaxLimit == 2      \* largest explicit --limit tried
MaxRecs == 2       \* records of a batch handed to the summary directly

-----------------------------------------------------------------------------
(* str.upper, str.lower and `in` on ASCII text *)

LowerCase ==
    <<"a", "b", "c", "d", "e", "f", "g", "h", "i", "j", "k", "l", "m",
      "n", "o", "p", "q", "r", "s", "t", "u", "v", "w", "x", "y", "z">>

UpperCase ==
    <<"A", "B", "C", "D", "E", "F", "G", "H", "I", "J", "K", "L", "M",
      "N", "O", "P", "Q", "R", "S", "T", "U", "V", "W", "X", "Y", "Z">>

MapChar(c, from, to) ==
    IF \E k \in DOMAIN from : from[k] = c
    THEN to[CHOOSE k \in DOMAIN from : from[k] = c]
    ELSE c

upper(s) == [k \in DOMAIN s |-> MapChar(s[k], LowerCase, UpperCase)]

lower(s) == [k \in DOMAIN s |-> MapChar(s[k], UpperCase, LowerCase)]

\* Python's `needle in hay` for strings
Contains(needle, hay) ==
    \E start \in 0 .. (Len(hay) - Len(needle)) :
        \A k \in 1 .. Len(needle) : hay[start + k] = needle[k]

-----------------------------------------------------------------------------
(* Module constants and the classifier's vocabularies *)

COMMON_TICKERS ==
    << <<"S", "P", "Y">>,
       <<"Q", "Q", "Q">>,
       <<"N", "V", "D", "A">>,
       <<"T", "S", "L", "A">>,
       <<"A", "A", "P", "L">>,
       <<"A", "M", "D">>,
       <<"A", "M", "Z", "N">>,
       <<"M", "E", "T", "A">>,
       <<"G", "O", "O", "G", "L">>,
       <<"M", "S", "F", "T">> >>

MOODS == <<"euphoria", "fear", "despair", "cope", "smug", "confusion", "neutral">>

DIRECTIONS == <<"bullish", "bearish", "mixed", "neutral">>

bullish_words ==
    << <<"m", "o", "o", "n">>,
       <<"c", "a", "l", "l", "s">>,
       <<"b", "u", "y">>,
       <<"l", "o", "n", "g">>,
       <<"r", "o", "c", "k", "e", "t">>,
       <<"t", "e", "n", "d", "i", "e", "s">>,
       <<"p", "r", "i", "n", "t">> >>

bearish_words ==
    << <<"p", "u", "t", "s">>,
       <<"s", "h", "o", "r", "t">>,
       <<"d", "r", "i", "l", "l">>,
       <<"c", "r", "a", "s", "h">>,
       <<"d", "u", "m", "p">>,
       <<"r", "u", "g">> >>

trade_indicators ==
    << <<"b", "o", "u", "g", "h", "t">>,
       <<"b", "u", "y", "i", "n", "g">>,
       <<"s", "o", "l", "d">>,
       <<"s", "e", "l", "l", "i", "n", "g">>,
       <<"h", "o", "l", "d", "i", "n", "g">>,
       <<"p", "o", "s", "i", "t", "i", "o", "n">>,
       <<"c", "a", "l", "l", "s">>,
       <<"p", "u", "t", "s">> >>

meme_indicators ==
    << <<"l", "m", "a", "o">>,
       <<"l", "o", "l">>,
       <<"a", "p", "e">>,
       <<"s", "m", "o", "o", "t", "h", " ", "b", "r", "a", "i", "n">>,
       <<"w", "i", "f", "e", "'", "s", " ", "b", "o", "y", "f", "r", "i", "e", "n", "d">>,
       <<"w", "e", "n", "d", "y", "'", "s">> >>

sarcasm_marker == <<"/", "s">>

-----------------------------------------------------------------------------
(* mock_classify_comment, expression by expression *)

Min(a, b) == IF a < b THEN a ELSE b

Max(a, b) == IF a > b THEN a ELSE b

\* sum(1 for w in words if w in text)
CountIn(words, text) == Cardinality({k \in DOMAIN words : Contains(words[k], text)})

\* [t for t in COMMON_TICKERS if t in body_upper]
found_tickers(b) == SelectSeq(COMMON_TICKERS, LAMBDA t : Contains(t, upper(b)))

bullish_count(b) == CountIn(bullish_words, lower(b))

bearish_count(b) == CountIn(bearish_words, lower(b))

meme_count(b) == CountIn(meme_indicators, lower(b))

\* any(w in body.lower() for w in trade_indicators)
is_trade(b) == \E k \in DOMAIN trade_indicators : Contains(trade_indicators[k], lower(b))

\* a slip of the comparison: a tie counts as bullish
direction_ties_bullish(bull, bear) ==
    IF bull >= bear THEN "bullish"
    ELSE IF bear > bull THEN "bearish"
    ELSE "neutral"

direction(bull, bear) ==
    IF bull > bear THEN "bullish"
    ELSE IF bear > bull THEN "bearish"
    ELSE "neutral"

\* a slip: the `not` dropped
is_commentary_no_not(trade, tickers) == trade \/ Len(tickers) > 0

is_commentary(trade, tickers) == (~trade) \/ Len(tickers) > 0

\* a slip: any ticker at all makes a single_stock
topic_type_any_ticker(tickers) ==
    IF Len(tickers) >= 1 THEN "single_stock"
    ELSE "other"

topic_type(tickers) ==
    IF Len(tickers) = 1 THEN "single_stock"
    ELSE IF Len(tickers) # 0 THEN "index_macro"
    ELSE "other"

sentiment_confidence(bull, bear) == Min(10, Max(1, bull + bear + 3))

\* a slip: the clamp dropped
degen_score_unclamped(memes, trade) == 3 + memes + (IF trade THEN 2 ELSE 0)

degen_score(memes, trade) == Min(10, 3 + memes + (IF trade THEN 2 ELSE 0))

meme_score(memes) == Min(10, memes * 3)

\* `choice` is what random.choice(MOODS) returns in this call; the function
\* draws it from the module-level generator, it is no parameter in the source.
primary_mood(memes, choice) == IF memes = 0 THEN choice ELSE "euphoria"

mock_classify_comment(b, choice) ==
    LET tickers == found_tickers(b)
        bull    == bullish_count(b)
        bear    == bearish_count(b)
        trade   == is_trade(b)
        memes   == meme_count(b)
    IN  [ is_trade_plan |-> trade,
          is_meme       |-> memes >= 2,
          is_commentary |-> is_commentary(trade, tickers),
          tickers       |-> tickers,
          primary_mood  |-> primary_mood(memes, choice),
          topic_type    |-> topic_type(tickers),
          sentiment     |-> [ trade_direction      |-> direction(bull, bear),
                              sentiment_confidence |-> sentiment_confidence(bull, bear),
                              is_sarcastic         |-> Contains(sarcasm_marker, b) \/ memes >= 2 ],
          degen_score   |-> degen_score(memes, trade),
          meme_score    |-> meme_score(memes) ]

MoodChoices == {MOODS[k] : k \in DOMAIN MOODS}

-----------------------------------------------------------------------------
(* Bodies handed to the classifier *)

RECURSIVE Join(_)
Join(words) ==
    IF words = <<>> THEN <<>>
    ELSE Head(words) \o <<" ">> \o Join(Tail(words))

\* one text in which every keyword of every vocabulary occurs
EveryKeyword ==
    Join(bullish_words) \o Join(bearish_words) \o Join(trade_indicators) \o Join(meme_indicators)

Words ==
    { <<"m", "o", "o", "n", " ">>,
      <<"p", "u", "t", "s", " ">>,
      <<"C", "a", "l", "l", "s", " ">>,
      <<"s", "p", "y">>,
      <<"N", "V", "D", "A", " ">>,
      <<"l", "o", "l", " ">>,
      <<"a", "p", "e">>,
      <<"/", "s">>,
      <<"b", "o", "u", "g", "h", "t", " ">>,
      <<"h", "e", "l", "l", "o", " ">>,
      EveryKeyword }

RECURSIVE TextsOf(_)
TextsOf(n) ==
    IF n = 0 THEN {<<>>}
    ELSE LET shorter == TextsOf(n - 1)
         IN  shorter \cup {t \o w : t \in shorter, w \in Words}

Bodies == TextsOf(MaxWords)

NoRecord == [none |-> TRUE]

NoSummary == [none |-> TRUE]

-----------------------------------------------------------------------------
(* One direct call of the classifier on any body *)

InitClassify ==
    /\ body \in Bodies
    /\ record = NoRecord
    /\ pc = "call"
    /\ client_id = "None" /\ client_secret = "None" /\ limit = 0
    /\ fetch = "pending" /\ thread = <<>> /\ comments = <<>>
    /\ classifications = <<>> /\ summary = NoSummary /\ result = "running"
    /\ i = 1

Classify ==
    /\ pc = "call"
    /\ \E choice \in MoodChoices : record' = mock_classify_comment(body, choice)
    /\ pc' = "returned"
    /\ UNCHANGED <<client_id, client_secret, limit, fetch, thread, comments,
                   classifications, summary, result, i, body>>

NextClassify == Classify

SpecClassify == InitClassify /\ [][NextClassify]_vars

-----------------------------------------------------------------------------
(* The SUMMARY block of main, over a list of classification records *)

RECURSIVE all_tickers(_)
all_tickers(cs) ==
    IF cs = <<>> THEN <<>>
    ELSE Head(cs).tickers \o all_tickers(Tail(cs))

RECURSIVE degen_total(_)
degen_total(cs) ==
    IF cs = <<>> THEN 0
    ELSE Head(cs).degen_score + degen_total(Tail(cs))

bullish(cs) == Cardinality({k \in DOMAIN cs : cs[k].sentiment.trade_direction = "bullish"})

bearish(cs) == Cardinality({k \in DOMAIN cs : cs[k].sentiment.trade_direction = "bearish"})

\* a slip: counting the records labelled neutral instead of taking the rest
neutral_by_label(cs) ==
    Cardinality({k \in DOMAIN cs : cs[k].sentiment.trade_direction = "neutral"})

neutral(cs) == Len(cs) - bullish(cs) - bearish(cs)

\* sum(...) / len(classifications), as the exact quotient; Python raises on len 0
average_degen(cs) ==
    IF Len(cs) = 0
    THEN [raised |-> "ZeroDivisionError"]
    ELSE [num |-> degen_total(cs), den |-> Len(cs)]

\* what lines 216-219 print, in order; the last line is the one that can raise
SummaryOf(cs) ==
    [ count          |-> Len(cs),
      unique_tickers |-> {all_tickers(cs)[k] : k \in DOMAIN all_tickers(cs)},
      bullish        |-> bullish(cs),
      bearish        |-> bearish(cs),
      neutral        |-> neutral(cs),
      average        |-> average_degen(cs) ]

\* how main ends once the SUMMARY block has run
ResultOf(cs) ==
    IF average_degen(cs) = [raised |-> "ZeroDivisionError"]
    THEN "ZeroDivisionError"
    ELSE "return 0"

-----------------------------------------------------------------------------
(* main *)

DefaultLimit == 5

\* argparse type=int accepts every integer
Limits == ((0 - 1) .. MaxLimit) \cup {DefaultLimit}

\* bodies of the comments a thread may hold: "", "puts " and "lol moon "
ThreadBodies ==
    { <<>>,
      <<"p", "u", "t", "s", " ">>,
      <<"l", "o", "l", " ", "m", "o", "o", "n", " ">> }

RECURSIVE ThreadsOf(_)
ThreadsOf(n) ==
    IF n = 0 THEN {<<>>}
    ELSE LET shorter == ThreadsOf(n - 1)
         IN  shorter \cup {Append(t, b) : t \in shorter, b \in ThreadBodies}

Threads == ThreadsOf(MaxComments)

EnvValues == {"None", "", "set"}

\* a slip: `and` for `or`
CredentialsBothMissing(id, secret) == id \in {"None", ""} /\ secret \in {"None", ""}

\* `not client_id or not client_secret`: None and "" are both falsy
CredentialsMissing(id, secret) == id \in {"None", ""} \/ secret \in {"None", ""}

\* Python's seq[:k]
Slice(seq, k) ==
    IF k >= 0
    THEN SubSeq(seq, 1, Min(k, Len(seq)))
    ELSE SubSeq(seq, 1, Max(0, Len(seq) + k))

\* a slip: the loop stops one comment early
LoopDoneEarly(idx, cms) == idx >= Len(cms)

\* the for loop over enumerate(comments, 1) is exhausted
LoopDone(idx, cms) == idx > Len(cms)

Init ==
    /\ pc = "start"
    /\ client_id \in EnvValues
    /\ client_secret \in EnvValues
    /\ limit \in Limits
    /\ fetch = "pending"
    /\ thread = <<>>
    /\ comments = <<>>
    /\ classifications = <<>>
    /\ summary = NoSummary
    /\ result = "running"
    /\ i = 1
    /\ body = <<>>
    /\ record = NoRecord

\* lines 141-149
CheckCredentials ==
    /\ pc = "start"
    /\ IF CredentialsMissing(client_id, client_secret)
       THEN /\ result' = "return 1"
            /\ pc' = "done"
       ELSE /\ result' = result
            /\ pc' = "ingest"
    /\ UNCHANGED <<client_id, client_secret, limit, fetch, thread, comments,
                   classifications, summary, i, body, record>>

\* lines 166-173: reading submission.title performs the one request that
\* loads the submission together with its comment listing
FetchSubmission ==
    /\ pc = "ingest"
    /\ \E outcome \in {"ok", "not_found", "network_error"} :
          /\ fetch' = outcome
          /\ IF outcome = "ok"
             THEN /\ thread' \in Threads
                  /\ pc' = "slice"
                  /\ result' = result
             ELSE /\ thread' = thread
                  /\ pc' = "done"
                  /\ result' = "return 1"
    /\ UNCHANGED <<client_id, client_secret, limit, comments,
                   classifications, summary, i, body, record>>

\* lines 180-195: replace_more(limit=0) only drops the "load more" stubs of the
\* listing already loaded; the top-level comments are then cut to the limit
TakeComments ==
    /\ pc = "slice"
    /\ comments' = Slice(thread, limit)
    /\ classifications' = <<>>
    /\ i' = 1
    /\ pc' = "classify"
    /\ UNCHANGED <<client_id, client_secret, limit, fetch, thread,
                   summary, result, body, record>>

\* lines 196-199: one iteration of the loop
ClassifyComment ==
    /\ pc = "classify"
    /\ ~LoopDone(i, comments)
    /\ \E choice \in MoodChoices :
          classifications' = Append(classifications, mock_classify_comment(comments[i], choice))
    /\ i' = i + 1
    /\ UNCHANGED <<pc, client_id, client_secret, limit, fetch, thread, comments,
                   summary, result, body, record>>

\* lines 201-226
Summarize ==
    /\ pc = "classify"
    /\ LoopDone(i, comments)
    /\ summary' = SummaryOf(classifications)
    /\ result' = ResultOf(classifications)
    /\ pc' = "done"
    /\ UNCHANGED <<client_id, client_secret, limit, fetch, thread, comments,
                   classifications, i, body, record>>

Next ==
    \/ CheckCredentials
    \/ FetchSubmission
    \/ TakeComments
    \/ ClassifyComment
    \/ Summarize

Spec == Init /\ [][Next]_vars

-----------------------------------------------------------------------------
(* The SUMMARY block on any batch of records, whatever their trade_direction *)

BatchRecord(d, tk, g) ==
    [ is_trade_plan |-> FALSE,
      is_meme       |-> FALSE,
      is_commentary |-> TRUE,
      tickers       |-> tk,
      primary_mood  |-> "neutral",
      topic_type    |-> topic_type(tk),
      sentiment     |-> [ trade_direction      |-> d,
                          sentiment_confidence |-> 3,
                          is_sarcastic         |-> FALSE ],
      degen_score   |-> g,
      meme_score    |-> 0 ]

BatchRecords ==
    { BatchRecord(DIRECTIONS[d], tk, g) :
        d \in DOMAIN DIRECTIONS,
        tk \in {<<>>, <<COMMON_TICKERS[1]>>},
        g \in {3, 10} }

RECURSIVE BatchesOf(_)
BatchesOf(n) ==
    IF n = 0 THEN {<<>>}
    ELSE LET shorter == BatchesOf(n - 1)
         IN  shorter \cup {Append(t, r) : t \in shorter, r \in BatchRecords}

InitSummary ==
    /\ pc = "batch"
    /\ classifications \in BatchesOf(MaxRecs)
    /\ summary = NoSummary
    /\ result = "running"
    /\ client_id = "None" /\ client_secret = "None" /\ limit = 0
    /\ fetch = "pending" /\ thread = <<>> /\ comments = <<>>
    /\ i = 1 /\ body = <<>> /\ record = NoRecord

SummarizeBatch ==
    /\ pc = "batch"
    /\ summary' = SummaryOf(classifications)
    /\ result' = ResultOf(classifications)
    /\ pc' = "done"
    /\ UNCHANGED <<client_id, client_secret, limit, fetch, thread, comments,
                   classifications, i, body, record>>

NextSummary == SummarizeBatch

SpecSummary == InitSummary /\ [][NextSummary]_vars

-----------------------------------------------------------------------------
(* Properties *)

\* C1: when the batch is empty the summary step signals a distinct, checkable
\* empty-batch condition and does not end in an unhandled division by zero.
C1_EmptyBatchSignalled ==
    (summary # NoSummary /\ summary.count = 0) => result # "ZeroDivisionError"

\* C2: for every body the classifier returns a record with
\* 1 <= sentiment_confidence <= 10, 0 <= degen_score <= 10, 0 <= meme_score <= 10.
C2_NumericFieldsInRange ==
    /\ pc = "returned" => record # NoRecord
    /\ record # NoRecord =>
          /\ record.sentiment.sentiment_confidence \in 1 .. 10
          /\ record.degen_score \in 0 .. 10
          /\ record.meme_score \in 0 .. 10

\* a body on which each of the three clamps cuts the raw value down to 10
C2_Witness ==
    /\ record # NoRecord
    /\ bullish_count(body) + bearish_count(body) + 3 > 10
    /\ 3 + meme_count(body) + 2 > 10
    /\ meme_count(body) * 3 > 10
    /\ is_trade(body)

\* C3: a collaborator failure (a credential missing, the submission not found, a
\* network error while the thread and its comments are retrieved) ends main with
\* return code 1 before any comment is classified and before any summary.
C3_FailureBeforeCore ==
    /\ ( /\ pc # "start"
         /\ (client_id \in {"None", ""} \/ client_secret \in {"None", ""}) )
       => ( /\ pc = "done" /\ result = "return 1" /\ fetch = "pending"
            /\ classifications = <<>> /\ summary = NoSummary )
    /\ fetch \in {"not_found", "network_error"}
       => ( /\ pc = "done" /\ result = "return 1"
            /\ classifications = <<>> /\ summary = NoSummary )
    /\ (classifications # <<>> \/ summary # NoSummary)
       => ( /\ fetch = "ok"
            /\ client_id \notin {"None", ""} /\ client_secret \notin {"None", ""} )

C3_Witness ==
    /\ fetch = "network_error"
    /\ pc = "done"
    /\ result = "return 1"

\* C4: records reach the classifier only when --limit is a positive integer,
\* and no more comments are classified than the limit.
C4_LimitEnforced ==
    classifications # <<>> => (limit > 0 /\ Len(classifications) <= limit)

\* C5: for a non-empty batch the bullish, bearish and neutral counts are
\* non-negative, sum to the number of records, and every record, whatever its
\* trade_direction ("mixed" included), is counted in exactly one bucket.
C5_CountsPartitionBatch ==
    (summary # NoSummary /\ Len(classifications) > 0) =>
        LET dir(k) == classifications[k].sentiment.trade_direction
            idx == DOMAIN classifications
        IN  /\ summary.bullish >= 0 /\ summary.bearish >= 0 /\ summary.neutral >= 0
            /\ summary.bullish + summary.bearish + summary.neutral = Len(classifications)
            /\ summary.bullish = Cardinality({k \in idx : dir(k) = "bullish"})
            /\ summary.bearish = Cardinality({k \in idx : dir(k) = "bearish"})
            /\ summary.neutral = Cardinality({k \in idx : dir(k) \notin {"bullish", "bearish"}})

C5_Witness ==
    /\ summary # NoSummary
    /\ Len(classifications) > 1
    /\ \E k \in DOMAIN classifications :
          classifications[k].sentiment.trade_direction = "mixed"
    /\ \E k \in DOMAIN classifications :
          classifications[k].sentiment.trade_direction = "bullish"

\* C6: topic_type is decided by the number of tickers of the record alone:
\* "other" for 0, "single_stock" for 1, "index_macro" for 2 or more.
C6_TopicTypeByTickerCount ==
    record # NoRecord =>
        record.topic_type =
            CASE Len(record.tickers) = 0 -> "other"
              [] Len(record.tickers) = 1 -> "single_stock"
              [] OTHER -> "index_macro"

C6_Witness ==
    /\ record # NoRecord
    /\ Len(record.tickers) >= 2
    /\ record.topic_type = "index_macro"

\* C7: two calls of the classifier on the same text yield the same record in
\* every field, primary_mood included.
C7_SameTextSameRecord ==
    \A j, k \in DOMAIN classifications :
        comments[j] = comments[k] => classifications[j] = classifications[k]

\* C8 as stated: on the empty body all keyword counts are zero, no ticker is
\* found and every boolean field of the record is false.
C8_EmptyBodyAllFalse ==
    (body = <<>> /\ record # NoRecord) =>
        /\ bullish_count(body) = 0 /\ bearish_count(body) = 0 /\ meme_count(body) = 0
        /\ record.tickers = <<>>
        /\ ~record.is_trade_plan
        /\ ~record.is_meme
        /\ ~record.is_commentary
        /\ ~record.sentiment.is_sarcastic

\* C8 amended: on the empty body all keyword counts are zero, no ticker is found,
\* is_trade_plan, is_meme and is_sarcastic are false, and is_commentary is true.
C8_EmptyBodyAmended ==
    (body = <<>> /\ pc = "returned") =>
        /\ record # NoRecord
        /\ bullish_count(body) = 0 /\ bearish_count(body) = 0 /\ meme_count(body) = 0
        /\ record.tickers = <<>>
        /\ ~record.is_trade_plan
        /\ ~record.is_meme
        /\ record.is_commentary
        /\ ~record.sentiment.is_sarcastic

C8_Witness ==
    /\ body = <<>>
    /\ pc = "returned"
    /\ record # NoRecord

\* C9: trade_direction is "bullish" exactly when the bullish keyword count
\* exceeds the bearish one, "bearish" exactly when the bearish count exceeds the
\* bullish one, "neutral" on a tie, and never "mixed".
C9_DirectionByCounts ==
    record # NoRecord =>
        LET bull == bullish_count(body)
            bear == bearish_count(body)
            dir  == record.sentiment.trade_direction
        IN  /\ (dir = "bullish") <=> (bull > bear)
            /\ (dir = "bearish") <=> (bear > bull)
            /\ (bull = bear) => (dir = "neutral")
            /\ dir # "mixed"

\* a tie of non-zero counts
C9_Witness ==
    /\ record # NoRecord
    /\ bullish_count(body) = bearish_count(body)
    /\ bullish_count(body) > 0
    /\ record.sentiment.trade_direction = "neutral"

\* C10: comments are classified one at a time in the order fetched, each
\* exactly once, and the summary is computed only after all of them, so its
\* count is the number of comments handed to the classifier.
C10_InOrderOnceThenSummary ==
    /\ Len(classifications) <= Len(comments)
    /\ pc = "classify" => Len(classifications) = i - 1
    /\ \A k \in DOMAIN classifications :
          \E choice \in MoodChoices :
              classifications[k] = mock_classify_comment(comments[k], choice)
    /\ summary # NoSummary =>
          /\ Len(classifications) = Len(comments)
          /\ summary.count = Len(comments)

C10_Witness ==
    /\ summary # NoSummary
    /\ Len(comments) = 2
    /\ comments[1] # comments[2]
    /\ summary.count = 2

====
